---- MODULE Spec2Model ----
(***************************************************************************)
(* Donut-Diaries backend: the vendor order queue (src/src/queue.py), the   *)
(* requests that drive it (src/src/order/service.py,                       *)
(* src/src/vendor/service.py), the queue change stream                     *)
(* (src/src/queue.py, QueueChangeStream), the websocket registry           *)
(* (src/src/websocket_manager.py) and the change stream's callback         *)
(* (src/src/service.py), as src/src/app.py starts them.                    *)
(*                                                                         *)
(* Persistence is beanie over MongoDB.  Document.save() writes the whole   *)
(* in-memory document ($set of every field, upsert) and, with              *)
(* link_rule=WriteRules.WRITE, first saves every linked value that is a    *)
(* fetched Document.  fetch_link() replaces a Link by the stored document, *)
(* or leaves the Link in place when the store holds no such document.      *)
(* Every await is a point where another request may run.                   *)
(***************************************************************************)
EXTENDS Integers, Sequences, FiniteSets, TLC

(* ------------------------------ bounds --------------------------------- *)
\* Number of requests that may be in progress at the same time.
NProcs == 2
\* Number of orders that are ever created.
MaxOrders == 2
\* Number of dequeue calls that are ever completed.
MaxDeq == 3

\* Number of coroutines that call watch() or close() on the change stream.
NTasks == 2
\* Number of change stream cursors that are ever opened.
MaxCursors == 3
\* Number of change events a cursor holds that were not pulled yet.
MaxBuf == 2

\* Number of coroutines that call the websocket registry at the same time.
NRTasks == 2
\* Number of websocket connections that are ever made.
NConns == 3
\* Number of websockets that arrive while calls of send_personal_message,
\* broadcast and shutdown are made as well.
NRegConns == 2
\* Number of messages that are ever delivered by calls made on the registry.
MaxSends == 2
\* Number of queue updates the running application's change stream reports.
MaxEvents == 3

\* Number of foods in the food collection; the last one is on no menu of
\* the vendor orders are placed with.
NFoods == 3
\* Number of food items in the body of an order placement.
MaxItems == 2
\* The largest quantity of one food item.
MaxQty == 2

Procs == 1..NProcs
OrderIds == 1..MaxOrders
Tasks == 1..NTasks
CursorIds == 1..MaxCursors
RTasks == 1..NRTasks
ConnIds == 1..NConns
FoodIds == 1..NFoods

\* Python's None, for the current-order slot and for dequeue's return value.
None == 0

\* Order.status values (order/models.py STATUS); "absent" stands for an
\* order id the order collection holds no document for.
STATUS == {"canceled", "waiting", "processing", "completed"}
Absent == "absent"

VARIABLES
    dbQueue,   \* the vendor's persisted queue document
    dbOrder,   \* order id -> persisted status, or Absent
    nextId,    \* the next order id (ids are timestamps of distinct microseconds)
    pc,        \* each request's position
    q,         \* each request's in-memory Queue document
    ord,       \* PlaceOrder: the in-memory Order of the request
    fetched,   \* dequeue/done: current_order was fetched as a Document
    enqLog,    \* history: orders in the order their Queue.enqueue returned
    retLog,    \* history: the values Queue.dequeue returned, in order
    watching,  \* QueueChangeStream: self.__watching
    cursor,    \* QueueChangeStream: self.__change_stream_cursor (an id, or None)
    cur,       \* the change stream cursors: state and events not yet pulled
    tpc,       \* each coroutine's position in watch() or close()
    tcs,       \* watch(): the local change_stream; close(): the cursor being closed
    tev,       \* watch(): the change handed to the callback in flight
    active,    \* WebsocketManager: self.active_connections (dict entries, in order)
    ws,        \* the websockets: application state, peer, name, handler
    inbox,     \* history: the messages each websocket's peer received, in order
    nextConn,  \* the next websocket to arrive
    rpc,       \* each registry caller's position
    rloc,      \* each registry caller's locals and the outcome of its last call
    bsock,     \* send_new_order_message: the websocket send_text is awaited on
    pending,   \* running application: name -> number of pending orders persisted
    reported,  \* running application: number of change events reported so far
    dbConsumer, \* the consumer's persisted document: the orders it refers to
    resp       \* POST /order: the last request handled and what was answered

\* what the queue requests leave alone, and what the change stream leaves alone
\* the registry, the bridge and the running application's queue collection
rvars == <<active, ws, inbox, nextConn, rpc, rloc, bsock, pending, reported>>
\* the consumer's document and the answers of POST /order
ovars == <<dbConsumer, resp>>
fvars == <<watching, cursor, cur, tpc, tcs, tev, rvars, ovars>>
qrest == <<dbOrder, nextId, pc, q, ord, fetched, enqLog, retLog, rvars, ovars>>

vars == <<dbQueue, dbOrder, nextId, pc, q, ord, fetched, enqLog, retLog,
          watching, cursor, cur, tpc, tcs, tev,
          active, ws, inbox, nextConn, rpc, rloc, bsock, pending, reported,
          dbConsumer, resp>>

Range(s) == {s[i] : i \in 1..Len(s)}

\* Queue(name=..., orders=[], current_order=None), vendor/service.py create_vendor
EmptyQueue == [name |-> "V", orders |-> <<>>, current_order |-> None]

InitQueue ==
    /\ dbQueue = EmptyQueue
    /\ dbOrder = [o \in OrderIds |-> Absent]
    /\ nextId = 1
    /\ pc = [p \in Procs |-> "idle"]
    /\ q = [p \in Procs |-> EmptyQueue]
    /\ ord = [p \in Procs |-> None]
    /\ fetched = [p \in Procs |-> FALSE]
    /\ enqLog = <<>>
    /\ retLog = <<>>

(* ------------------- Queue methods on the in-memory copy --------------- *)
\* a front insertion instead of the tail append
EnqueueAtFront(qd, o) == [qd EXCEPT !.orders = <<o>> \o @]

\* Queue.enqueue: self.orders.append(order)
QueueAppend(qd, o) == [qd EXCEPT !.orders = Append(@, o)]

\* pops the newest order instead of the oldest
PopLast(qd) ==
    [qd EXCEPT !.current_order = qd.orders[Len(qd.orders)],
               !.orders = SubSeq(qd.orders, 1, Len(qd.orders) - 1)]

\* reads the head into the slot and leaves it in the pending list
PeekHead(qd) == [qd EXCEPT !.current_order = Head(qd.orders)]

\* Queue.dequeue, non-empty branch: self.current_order = self.orders.pop(0)
QueuePop(qd) ==
    [qd EXCEPT !.current_order = Head(qd.orders), !.orders = Tail(qd.orders)]

\* leaves the slot as it was
KeepCurrent(qd) == qd

\* Queue.dequeue, empty branch: self.current_order = None
QueueClearCurrent(qd) == [qd EXCEPT !.current_order = None]

\* the synchronous part of Queue.dequeue before its first await
DequeueLocal(qd) ==
    IF Len(qd.orders) > 0 THEN QueuePop(qd) ELSE QueueClearCurrent(qd)

Finish(p) ==
    /\ q' = [q EXCEPT ![p] = EmptyQueue]
    /\ ord' = [ord EXCEPT ![p] = None]
    /\ fetched' = [fetched EXCEPT ![p] = FALSE]

(* ----------------------- POST /order: create_order --------------------- *)
\* order = Order(...); consumer.orders.append(order); await consumer.save()
CreateOrder(p) ==
    /\ pc[p] = "idle"
    /\ nextId <= MaxOrders
    /\ ord' = [ord EXCEPT ![p] = nextId]
    /\ nextId' = nextId + 1
    /\ dbConsumer' = Append(dbConsumer, nextId)
    /\ pc' = [pc EXCEPT ![p] = "p_fetch"]
    /\ UNCHANGED <<dbQueue, dbOrder, q, fetched, enqLog, retLog>>
    /\ UNCHANGED <<watching, cursor, cur, tpc, tcs, tev, rvars>>

\* create_order begins, for a request that passed validation
StartPlace(p) == CreateOrder(p) /\ UNCHANGED resp

(* ------------- POST /order: validate_order_create, place_order --------- *)
\* Food.price.amount of the foods in the food collection.
Price(f) == 40 + 10 * f

\* vendor.menu: the foods the vendor's menu links to.
Menu == {f \in FoodIds : f < NFoods}

\* The total_price values requests carry.
Totals == {90, 100, 110}

\* FoodItem: quantity is at least 1 (validate_quantity)
FoodItems == [food_id : FoodIds, quantity : 1..MaxQty]

\* The requests: the OrderCreate body, and whether the consumer of the token
\* and the vendor of vendor_id exist.
Requests ==
    [consumer : BOOLEAN, vendor : BOOLEAN,
     foods : UNION {[1..k -> FoodItems] : k \in 0..MaxItems},
     total_price : Totals]

NoResp ==
    [req |-> [consumer |-> FALSE, vendor |-> FALSE, foods |-> <<>>,
              total_price |-> 0],
     outcome |-> "none"]

InitPlace ==
    /\ dbConsumer = <<>>
    /\ resp = NoResp

\* remove_duplicates: one FoodItem per food_id, in the order of first
\* appearance, with the quantities added up
RECURSIVE RemoveDuplicates(_)
RemoveDuplicates(food_items) ==
    IF food_items = <<>> THEN <<>>
    ELSE LET rest == RemoveDuplicates(SubSeq(food_items, 1, Len(food_items) - 1))
             last == food_items[Len(food_items)] IN
         IF \E i \in 1..Len(rest) : rest[i].food_id = last.food_id
         THEN [i \in 1..Len(rest) |->
                  IF rest[i].food_id = last.food_id
                  THEN [rest[i] EXCEPT !.quantity = @ + last.quantity]
                  ELSE rest[i]]
         ELSE Append(rest, last)

\* validate_foods: every food_id is among the ids of vendor.menu
ValidateFoods(food_items) ==
    \A i \in 1..Len(food_items) : food_items[i].food_id \in Menu

\* food_items_dict = {food.food_id: food.quantity for food in food_items}
\* (a later item of the same food replaces an earlier one)
FoodItemsDict(food_items, f) ==
    food_items[CHOOSE i \in 1..Len(food_items) :
                  /\ food_items[i].food_id = f
                  /\ \A j \in (i + 1)..Len(food_items) : food_items[j].food_id # f
              ].quantity

\* validate_total_price: the sum, over the foods of the collection whose id
\* is in the order, of price times quantity
TotalPrice(food_items) ==
    LET found == {food_items[i].food_id : i \in 1..Len(food_items)}
        S[k \in 0..NFoods] ==
            IF k = 0 THEN 0
            ELSE S[k - 1] + (IF k \in found
                             THEN Price(k) * FoodItemsDict(food_items, k) ELSE 0)
    IN S[NFoods]

\* a check that lets every total through
AnyTotalPrice(total_price, food_items) == TRUE

\* validate_total_price: if total_price != _total_price: raise
ValidateTotalPrice(total_price, food_items) ==
    total_price = TotalPrice(food_items)

\* validate_order_create: the first check that fails raises HTTPException
\* (status 400), else the request goes on to place_order
ValidateOrderCreate(req) ==
    LET foods == RemoveDuplicates(req.foods) IN
    IF ~req.consumer THEN "Consumer does not exist"
    ELSE IF ~req.vendor THEN "vendor does not exist"
    ELSE IF ~ValidateFoods(foods) THEN "Invalid food"
    ELSE IF ~ValidateTotalPrice(req.total_price, foods)
         THEN "Food prices don't match"
    ELSE "ok"

\* POST /order: the dependency validate_order_create, then place_order ->
\* create_order up to its first await; a request that fails validation is
\* answered at once
PlaceOrder(p, req) ==
    IF ValidateOrderCreate(req) = "ok"
    THEN /\ CreateOrder(p)
         /\ resp' = [req |-> req, outcome |-> "ok"]
    ELSE /\ pc[p] = "idle"
         /\ resp' = [req |-> req, outcome |-> ValidateOrderCreate(req)]
         /\ UNCHANGED <<dbQueue, dbOrder, nextId, pc, q, ord, fetched, enqLog,
                        retLog, dbConsumer>>
         /\ UNCHANGED <<watching, cursor, cur, tpc, tcs, tev, rvars>>

\* enqueue_order: queue = await fetch_queue(vendor); queue.enqueue appends
PlaceFetchQueue(p) ==
    /\ pc[p] = "p_fetch"
    /\ q' = [q EXCEPT ![p] = QueueAppend(dbQueue, ord[p])]
    /\ pc' = [pc EXCEPT ![p] = "p_saveq"]
    /\ UNCHANGED <<dbQueue, dbOrder, nextId, ord, fetched, enqLog, retLog>>
    /\ UNCHANGED fvars

\* Queue.enqueue: await self.save()
PlaceSaveQueue(p) ==
    /\ pc[p] = "p_saveq"
    /\ dbQueue' = q[p]
    /\ enqLog' = Append(enqLog, ord[p])
    /\ pc' = [pc EXCEPT ![p] = "p_saveord"]
    /\ UNCHANGED <<dbOrder, nextId, q, ord, fetched, retLog>>
    /\ UNCHANGED fvars

\* vendor.save(link_rule=WRITE): the new Order in vendor.orders is saved
PlaceSaveOrder(p) ==
    /\ pc[p] = "p_saveord"
    /\ dbOrder' = [dbOrder EXCEPT ![ord[p]] = "waiting"]
    /\ pc' = [pc EXCEPT ![p] = "p_saveord2"]
    /\ UNCHANGED <<dbQueue, nextId, q, ord, fetched, enqLog, retLog>>
    /\ UNCHANGED fvars

\* vendor.save(link_rule=WRITE) -> queue.save(link_rule=WRITE): the new
\* Order in queue.orders is saved again
PlaceSaveOrder2(p) ==
    /\ pc[p] = "p_saveord2"
    /\ dbOrder' = [dbOrder EXCEPT ![ord[p]] = "waiting"]
    /\ pc' = [pc EXCEPT ![p] = "p_saveq2"]
    /\ UNCHANGED <<dbQueue, nextId, q, ord, fetched, enqLog, retLog>>
    /\ UNCHANGED fvars

\* vendor.save(link_rule=WRITE) -> queue.save: the queue document is written
\* again from the request's copy; then the vendor document; return order
PlaceSaveQueue2(p) ==
    /\ pc[p] = "p_saveq2"
    /\ dbQueue' = q[p]
    /\ pc' = [pc EXCEPT ![p] = "idle"]
    /\ Finish(p)
    /\ UNCHANGED <<dbOrder, nextId, enqLog, retLog>>
    /\ UNCHANGED fvars

(* --------------- GET /orders/next: get_next_order_from_queue ----------- *)
\* await vendor.fetch_link("queue"); Queue.dequeue up to its first await
NextFetchQueue(p) ==
    /\ pc[p] = "idle"
    /\ Len(retLog) < MaxDeq
    /\ q' = [q EXCEPT ![p] = DequeueLocal(dbQueue)]
    /\ pc' = [pc EXCEPT ![p] =
                 IF Len(dbQueue.orders) > 0 THEN "n_fetchord" ELSE "n_saveq"]
    /\ UNCHANGED <<dbQueue, dbOrder, nextId, ord, fetched, enqLog, retLog>>
    /\ UNCHANGED fvars

\* await self.fetch_link("current_order"); status = PROCESSING (in memory)
NextFetchOrder(p) ==
    /\ pc[p] = "n_fetchord"
    /\ fetched' = [fetched EXCEPT ![p] = dbOrder[q[p].current_order] # Absent]
    /\ pc' = [pc EXCEPT ![p] =
                 IF dbOrder[q[p].current_order] # Absent
                 THEN "n_saveord" ELSE "n_saveq"]
    /\ UNCHANGED <<dbQueue, dbOrder, nextId, q, ord, enqLog, retLog>>
    /\ UNCHANGED fvars

\* self.save(link_rule=WRITE): the fetched current order is saved
NextSaveOrder(p) ==
    /\ pc[p] = "n_saveord"
    /\ dbOrder' = [dbOrder EXCEPT ![q[p].current_order] = "processing"]
    /\ pc' = [pc EXCEPT ![p] = "n_saveq"]
    /\ UNCHANGED <<dbQueue, nextId, q, ord, fetched, enqLog, retLog>>
    /\ UNCHANGED fvars

\* What dequeue returns: None, the fetched Order (its id), or the bare
\* Link when the order document was not found (the negated id).
DequeueResult(p) ==
    IF q[p].current_order = None THEN None
    ELSE IF fetched[p] THEN q[p].current_order
    ELSE 0 - q[p].current_order

\* self.save(link_rule=WRITE): the queue document; return self.current_order
NextSaveQueue(p) ==
    /\ pc[p] = "n_saveq"
    /\ dbQueue' = q[p]
    /\ retLog' = Append(retLog, DequeueResult(p))
    /\ pc' = [pc EXCEPT ![p] = "idle"]
    /\ Finish(p)
    /\ UNCHANGED <<dbOrder, nextId, enqLog>>
    /\ UNCHANGED fvars

(* ------------------ Queue.done on a freshly fetched queue -------------- *)
\* the queue is fetched (as fetch_queue does); Queue.done: if current_order
DoneFetchQueue(p) ==
    /\ pc[p] = "idle"
    /\ IF dbQueue.current_order # None
       THEN /\ q' = [q EXCEPT ![p] = dbQueue]
            /\ pc' = [pc EXCEPT ![p] = "d_fetchord"]
       ELSE UNCHANGED <<q, pc>>
    /\ UNCHANGED <<dbQueue, dbOrder, nextId, ord, fetched, enqLog, retLog>>
    /\ UNCHANGED fvars

\* await self.fetch_link("current_order"); status = COMPLETED (in memory)
DoneFetchOrder(p) ==
    /\ pc[p] = "d_fetchord"
    /\ fetched' = [fetched EXCEPT ![p] = dbOrder[q[p].current_order] # Absent]
    /\ pc' = [pc EXCEPT ![p] =
                 IF dbOrder[q[p].current_order] # Absent
                 THEN "d_saveord" ELSE "d_saveq"]
    /\ UNCHANGED <<dbQueue, dbOrder, nextId, q, ord, enqLog, retLog>>
    /\ UNCHANGED fvars

\* self.save(link_rule=WRITE): the fetched current order is saved
DoneSaveOrder(p) ==
    /\ pc[p] = "d_saveord"
    /\ dbOrder' = [dbOrder EXCEPT ![q[p].current_order] = "completed"]
    /\ pc' = [pc EXCEPT ![p] = "d_saveq"]
    /\ UNCHANGED <<dbQueue, nextId, q, ord, fetched, enqLog, retLog>>
    /\ UNCHANGED fvars

\* self.save(link_rule=WRITE): the queue document
DoneSaveQueue(p) ==
    /\ pc[p] = "d_saveq"
    /\ dbQueue' = q[p]
    /\ pc' = [pc EXCEPT ![p] = "idle"]
    /\ Finish(p)
    /\ UNCHANGED <<dbOrder, nextId, enqLog, retLog>>
    /\ UNCHANGED fvars

Step(p) ==
    \/ StartPlace(p)
    \/ PlaceFetchQueue(p)
    \/ PlaceSaveQueue(p)
    \/ PlaceSaveOrder(p)
    \/ PlaceSaveOrder2(p)
    \/ PlaceSaveQueue2(p)
    \/ NextFetchQueue(p)
    \/ NextFetchOrder(p)
    \/ NextSaveOrder(p)
    \/ NextSaveQueue(p)
    \/ DoneFetchQueue(p)
    \/ DoneFetchOrder(p)
    \/ DoneSaveOrder(p)
    \/ DoneSaveQueue(p)

(* ------------------- the queue collection's change stream -------------- *)
\* The fields of a queue document (class Queue).
QueueFields == {"name", "orders", "current_order"}

QueueNames == {"V", "W"}

PendingSeqs ==
    {s \in UNION {[1..k -> OrderIds] : k \in 0..MaxOrders} :
        \A i, j \in 1..Len(s) : i # j => s[i] # s[j]}

\* The values a queue document takes.
QueueDocs ==
    {d \in [name : QueueNames, orders : PendingSeqs,
            current_order : OrderIds \cup {None}] :
        d.current_order \notin Range(d.orders)}

\* The change event the store reports for an update of the queue document
\* from old to new: the fields whose value changed, and the full document
\* (full_document="updateLookup"), of which the callback reads the name and
\* the number of pending orders.
ChangeEvent(old, new) ==
    [operationType |-> "update",
     updatedFields |-> {f \in QueueFields : old[f] # new[f]},
     fullDocument |-> [name |-> new.name, n |-> Len(new.orders)]]

\* a pipeline that lets every update through
MatchAnyUpdate(ev) == ev.operationType = "update"

\* self.pipeline: $match operationType "update" and
\* updateDescription.updatedFields.orders $exists
PipelineMatch(ev) ==
    /\ ev.operationType = "update"
    /\ "orders" \in ev.updatedFields

NoCursor == [state |-> "unused", buf |-> <<>>]
NoEvent == [name |-> "V", n |-> 0]

InitFeed ==
    /\ watching = FALSE
    /\ cursor = None
    /\ cur = [c \in CursorIds |-> NoCursor]
    /\ tpc = [t \in Tasks |-> "idle"]
    /\ tcs = [t \in Tasks |-> None]
    /\ tev = [t \in Tasks |-> NoEvent]

\* db.queue.watch(...): the next cursor object
NewCursor ==
    CHOOSE c \in CursorIds :
        /\ cur[c].state = "unused"
        /\ \A d \in CursorIds : cur[d].state = "unused" => c <= d

\* __QueueChangeStream.cursor: the held cursor, created when there is none
CursorCall == IF cursor # None THEN cursor ELSE NewCursor

\* A persisted update of the queue document: a save that changes no field
\* is no update; every open cursor receives the event its pipeline matches.
StoreWrite(d) ==
    /\ d # dbQueue
    /\ \A c \in CursorIds : Len(cur[c].buf) < MaxBuf
    /\ dbQueue' = d
    /\ cur' = [c \in CursorIds |->
                 IF cur[c].state = "open" /\ PipelineMatch(ChangeEvent(dbQueue, d))
                 THEN [cur[c] EXCEPT !.buf =
                           Append(@, ChangeEvent(dbQueue, d).fullDocument)]
                 ELSE cur[c]]
    /\ UNCHANGED <<watching, cursor, tpc, tcs, tev, qrest>>

\* watch(): change_stream = self.cursor(); if not self.__watching:
\* self.__watching = True, and the loop asks for the first change
WatchCall(t) ==
    /\ tpc[t] = "idle"
    /\ cursor # None \/ \E c \in CursorIds : cur[c].state = "unused"
    /\ cursor' = CursorCall
    /\ cur' = IF cursor # None THEN cur
              ELSE [cur EXCEPT ![NewCursor] = [state |-> "open", buf |-> <<>>]]
    /\ IF ~watching
       THEN /\ watching' = TRUE
            /\ tpc' = [tpc EXCEPT ![t] = "next"]
            /\ tcs' = [tcs EXCEPT ![t] = CursorCall]
       ELSE UNCHANGED <<watching, tpc, tcs>>
    /\ UNCHANGED <<tev, dbQueue, qrest>>

\* a loop that takes the newest change the cursor holds
PullNewest(t) ==
    /\ tpc[t] = "next"
    /\ cur[tcs[t]].state = "open"
    /\ cur[tcs[t]].buf # <<>>
    /\ tev' = [tev EXCEPT ![t] = cur[tcs[t]].buf[Len(cur[tcs[t]].buf)]]
    /\ cur' = [cur EXCEPT ![tcs[t]].buf = SubSeq(@, 1, Len(@) - 1)]
    /\ tpc' = [tpc EXCEPT ![t] = "cb"]
    /\ UNCHANGED <<watching, cursor, tcs, dbQueue, qrest>>

\* async for change in change_stream: await on_change(change["fullDocument"])
WatchPull(t) ==
    /\ tpc[t] = "next"
    /\ cur[tcs[t]].state = "open"
    /\ cur[tcs[t]].buf # <<>>
    /\ tev' = [tev EXCEPT ![t] = Head(cur[tcs[t]].buf)]
    /\ cur' = [cur EXCEPT ![tcs[t]].buf = Tail(@)]
    /\ tpc' = [tpc EXCEPT ![t] = "cb"]
    /\ UNCHANGED <<watching, cursor, tcs, dbQueue, qrest>>

\* on_change returns: the loop asks for the next change
CallbackReturn(t) ==
    /\ tpc[t] = "cb"
    /\ tpc' = [tpc EXCEPT ![t] = "next"]
    /\ tev' = [tev EXCEPT ![t] = NoEvent]
    /\ UNCHANGED <<watching, cursor, cur, tcs, dbQueue, qrest>>

\* on_change raises: the exception leaves watch()
CallbackRaise(t) ==
    /\ tpc[t] = "cb"
    /\ tpc' = [tpc EXCEPT ![t] = "idle"]
    /\ tev' = [tev EXCEPT ![t] = NoEvent]
    /\ tcs' = [tcs EXCEPT ![t] = None]
    /\ UNCHANGED <<watching, cursor, cur, dbQueue, qrest>>

\* close() up to its await: if self.__change_stream_cursor:
\* self.__watching = False; await self.__change_stream_cursor.close()
CloseEnter(t, after) ==
    /\ watching' = FALSE
    /\ tpc' = [tpc EXCEPT ![t] = after]
    /\ tcs' = [tcs EXCEPT ![t] = cursor]

\* the async for ends because its cursor was closed:
\* if change_stream: await self.close(); self.__watching = False
WatchEnd(t) ==
    /\ tpc[t] = "next"
    /\ cur[tcs[t]].state = "closed"
    /\ IF cursor = None
       THEN /\ watching' = FALSE
            /\ tpc' = [tpc EXCEPT ![t] = "idle"]
            /\ tcs' = [tcs EXCEPT ![t] = None]
            /\ UNCHANGED cursor
       ELSE CloseEnter(t, "w_closing") /\ UNCHANGED cursor
    /\ UNCHANGED <<cur, tev, dbQueue, qrest>>

\* QueueChangeStream.close() -> __QueueChangeStream.close()
CloseCall(t) ==
    /\ tpc[t] = "idle"
    /\ cursor # None
    /\ CloseEnter(t, "c_closing")
    /\ UNCHANGED <<cursor, cur, tev, dbQueue, qrest>>

\* await self.__change_stream_cursor.close(): the cursor is closed
CursorClosed(t) ==
    /\ tpc[t] \in {"c_closing", "w_closing"}
    /\ cur' = [cur EXCEPT ![tcs[t]] = [state |-> "closed", buf |-> <<>>]]
    /\ tpc' = [tpc EXCEPT ![t] =
                  IF tpc[t] = "c_closing" THEN "c_resume" ELSE "w_resume"]
    /\ UNCHANGED <<watching, cursor, tcs, tev, dbQueue, qrest>>

\* a close() that returns without letting go of the cursor
ReturnKeepingCursor(t) ==
    /\ tpc[t] \in {"c_resume", "w_resume"}
    /\ watching' = IF tpc[t] = "w_resume" THEN FALSE ELSE watching
    /\ tpc' = [tpc EXCEPT ![t] = "idle"]
    /\ tcs' = [tcs EXCEPT ![t] = None]
    /\ UNCHANGED <<cursor, cur, tev, dbQueue, qrest>>

\* close() after its await: self.__change_stream_cursor = None; in watch()
\* then self.__watching = False
CloseReturn(t) ==
    /\ tpc[t] \in {"c_resume", "w_resume"}
    /\ cursor' = None
    /\ watching' = IF tpc[t] = "w_resume" THEN FALSE ELSE watching
    /\ tpc' = [tpc EXCEPT ![t] = "idle"]
    /\ tcs' = [tcs EXCEPT ![t] = None]
    /\ UNCHANGED <<cur, tev, dbQueue, qrest>>

TaskStep(t) ==
    \/ WatchCall(t)
    \/ WatchPull(t)
    \/ CallbackReturn(t)
    \/ CallbackRaise(t)
    \/ WatchEnd(t)
    \/ CloseCall(t)
    \/ CursorClosed(t)
    \/ CloseReturn(t)

(* ------------- the websocket registry: WebsocketManager ---------------- *)
\* The module WebsocketManager(__name__) is created in (app.py lifespan),
\* and the modules that call it.
Owner == "src.app"
Modules == {"src.app", "src.vendor.router"}

\* The texts callers of the registry send.
Texts == {"m"}

\* A deleted entry of the dict: the slot stays in the entries table.
Tomb == [name |-> "", sock |-> None]

\* A websocket nobody has accepted yet.
NewSocket == [app |-> "CONNECTING", peer |-> TRUE, name |-> "", handler |-> FALSE]

\* A caller outside any call.
NoLocals == [op |-> "", name |-> "", sock |-> None, text |-> "", pos |-> 0,
             used |-> 0, left |-> 0, module |-> "", res |-> "none"]

InitReg ==
    /\ active = <<>>
    /\ ws = [c \in ConnIds |-> NewSocket]
    /\ inbox = [c \in ConnIds |-> <<>>]
    /\ nextConn = 1
    /\ rpc = [r \in RTasks |-> "idle"]
    /\ rloc = [r \in RTasks |-> NoLocals]
    /\ bsock = [t \in Tasks |-> None]
    /\ pending = [n \in QueueNames |-> 0]
    /\ reported = 0

\* self.active_connections.get(name)
DictGet(d, name) ==
    IF \E i \in 1..Len(d) : d[i].name = name
    THEN d[CHOOSE i \in 1..Len(d) : d[i].name = name].sock
    ELSE None

\* self.active_connections[name] = websocket: an existing key keeps its
\* place, a new key goes to the end
DictSet(d, name, c) ==
    IF \E i \in 1..Len(d) : d[i].name = name
    THEN [i \in 1..Len(d) |-> IF d[i].name = name THEN [d[i] EXCEPT !.sock = c]
                              ELSE d[i]]
    ELSE Append(d, [name |-> name, sock |-> c])

\* an eviction that removes nothing
KeepEntry(d, name) == d

\* remove_connection: del self.active_connections[name], KeyError ignored
DictDel(d, name) ==
    [i \in 1..Len(d) |-> IF d[i].name = name THEN Tomb ELSE d[i]]

\* len(self.active_connections)
DictSize(d) == Cardinality({i \in 1..Len(d) : d[i] # Tomb})

\* iter(dict): the position in the entries table, the size the dict had
\* when the iterator was made, and the number of entries still expected
DictIter(d) == [pos |-> 0, used |-> DictSize(d), left |-> DictSize(d)]

\* next(iterator): RuntimeError when the dict changed size since the
\* iterator was made or holds an entry that was not expected; else the next
\* entry, or the end
IterNext(d, it) ==
    LET cand == {i \in (it.pos + 1)..Len(d) : d[i] # Tomb} IN
    IF DictSize(d) # it.used THEN [kind |-> "error", i |-> 0]
    ELSE IF cand = {} THEN [kind |-> "stop", i |-> 0]
    ELSE IF it.left = 0 THEN [kind |-> "error", i |-> 0]
    ELSE [kind |-> "item", i |-> CHOOSE i \in cand : \A j \in cand : i <= j]

\* a call op(name) returns or raises (for shutdown, name is the module it
\* was called from): the caller keeps only the outcome
Return(r, op, name, outcome) ==
    /\ rpc' = [rpc EXCEPT ![r] = "idle"]
    /\ rloc' = [rloc EXCEPT ![r] = [NoLocals EXCEPT !.op = op, !.name = name,
                                                    !.res = outcome]]

\* the number of messages delivered so far
Delivered ==
    LET F[k \in 0..NConns] == IF k = 0 THEN 0 ELSE F[k - 1] + Len(inbox[k])
    IN F[NConns]

\* what the registry's callers leave alone
regrest == <<dbQueue, dbOrder, nextId, pc, q, ord, fetched, enqLog, retLog, ovars,
             watching, cursor, cur, tpc, tcs, tev, bsock, pending, reported>>

(* connect(name, websocket): vendor/router.py current_orders calls it with
   each websocket that arrives *)
\* await websocket.accept()
ConnectAccept(r, name) ==
    /\ rpc[r] = "idle"
    /\ nextConn <= NConns
    /\ ws' = [ws EXCEPT ![nextConn] = [NewSocket EXCEPT !.app = "CONNECTED",
                                                        !.name = name]]
    /\ nextConn' = nextConn + 1
    /\ rpc' = [rpc EXCEPT ![r] = "c_close"]
    /\ rloc' = [rloc EXCEPT ![r] = [NoLocals EXCEPT !.op = "connect",
                                        !.name = name, !.sock = nextConn]]
    /\ UNCHANGED <<active, inbox, regrest>>

\* self.active_connections[name] = websocket; connect returns and the
\* handler waits in websocket.receive_text()
Register(r) ==
    /\ active' = DictSet(active, rloc[r].name, rloc[r].sock)
    /\ Return(r, "connect", rloc[r].name, "ok")

\* close(name): a registered websocket that is CONNECTED is closed, which
\* sets its application_state at once and then awaits the transport; with
\* nothing to close there is no suspension and connect registers at once
ConnectClosePrev(r) ==
    /\ rpc[r] = "c_close"
    /\ LET old == DictGet(active, rloc[r].name) IN
       IF old # None /\ ws[old].app = "CONNECTED"
       THEN /\ ws' = [ws EXCEPT ![old].app = "DISCONNECTED"]
            /\ rpc' = [rpc EXCEPT ![r] = "c_closing"]
            /\ UNCHANGED <<active, rloc>>
       ELSE /\ Register(r)
            /\ ws' = [ws EXCEPT ![rloc[r].sock].handler = TRUE]
    /\ UNCHANGED <<inbox, nextConn, regrest>>

\* await existing_websocket.close(...) returns; the new websocket is
\* registered
ConnectRegister(r) ==
    /\ rpc[r] = "c_closing"
    /\ Register(r)
    /\ ws' = [ws EXCEPT ![rloc[r].sock].handler = TRUE]
    /\ UNCHANGED <<inbox, nextConn, regrest>>

\* the client of a websocket goes away
PeerDisconnect(c) ==
    /\ ws[c].app = "CONNECTED"
    /\ ws[c].peer
    /\ ws' = [ws EXCEPT ![c].peer = FALSE]
    /\ UNCHANGED <<active, inbox, nextConn, rpc, rloc, regrest>>

\* current_orders: receive_text raises because the client went away;
\* websocket_manager.remove_connection(name)
HandlerEvict(c) ==
    /\ ws[c].handler
    /\ ~ws[c].peer
    /\ active' = DictDel(active, ws[c].name)
    /\ ws' = [ws EXCEPT ![c].handler = FALSE]
    /\ UNCHANGED <<inbox, nextConn, rpc, rloc, regrest>>

(* send_personal_message(message, name) *)
\* The branch send_personal_message takes for the websocket it found.
SendCase(sock) ==
    IF sock # None /\ ws[sock].app = "CONNECTED" THEN "send"
    ELSE IF sock # None /\ ws[sock].app = "DISCONNECTED" THEN "evict"
    ELSE "invalid"

\* What awaiting websocket.send_text can come to: the client receives the
\* text; or the client is gone and the text is lost, or the transport
\* raises WebSocketDisconnect (service.py expects it) or ConnectionClosedError
\* (vendor/router.py expects it)
SendOutcomes(sock) ==
    IF ws[sock].peer THEN {"sent"}
    ELSE {"lost", "WebSocketDisconnect", "ConnectionClosedError"}

\* websocket = self.active_connections.get(name) and the branch taken, up
\* to the await of send_text
SendCall(r, name, text) ==
    /\ rpc[r] = "idle"
    /\ Delivered < MaxSends
    /\ LET sock == DictGet(active, name) IN
       CASE SendCase(sock) = "send" ->
              /\ rpc' = [rpc EXCEPT ![r] = "s_sending"]
              /\ rloc' = [rloc EXCEPT ![r] = [NoLocals EXCEPT !.op = "send",
                                    !.name = name, !.sock = sock, !.text = text]]
              /\ UNCHANGED active
         [] SendCase(sock) = "evict" ->
              /\ active' = DictDel(active, name)
              /\ Return(r, "send", name, "ok")
         [] OTHER ->
              /\ Return(r, "send", name, "ok")
              /\ UNCHANGED active
    /\ UNCHANGED <<ws, inbox, nextConn, regrest>>

\* await websocket.send_text(message) is over: the text was delivered or
\* lost, or the exception leaves send_personal_message
SendDone(r) ==
    /\ rpc[r] = "s_sending"
    /\ \E o \in SendOutcomes(rloc[r].sock) :
          /\ inbox' = IF o = "sent"
                      THEN [inbox EXCEPT ![rloc[r].sock] =
                               Append(@, [text |-> rloc[r].text, seq |-> 0])]
                      ELSE inbox
          /\ Return(r, "send", rloc[r].name,
                    IF o \in {"sent", "lost"} THEN "ok" ELSE o)
    /\ UNCHANGED <<active, ws, nextConn, regrest>>

(* broadcast(message) *)
\* The loop of broadcast from next(iterator) to its next await or its end:
\* a CONNECTED entry is sent to; a DISCONNECTED entry is removed, and the
\* dict having changed size, the next(iterator) that follows raises
BroadcastFrom(r, text, it) ==
    LET nx == IterNext(active, it)
        e == active[nx.i] IN
    CASE nx.kind = "error" ->
           Return(r, "broadcast", "", "RuntimeError") /\ UNCHANGED active
      [] nx.kind = "stop" ->
           Return(r, "broadcast", "", "ok") /\ UNCHANGED active
      [] OTHER ->
           IF ws[e.sock].app = "CONNECTED"
           THEN /\ rpc' = [rpc EXCEPT ![r] = "b_sending"]
                /\ rloc' = [rloc EXCEPT ![r] =
                              [NoLocals EXCEPT !.op = "broadcast",
                                  !.name = e.name, !.sock = e.sock,
                                  !.text = text, !.pos = nx.i, !.used = it.used,
                                  !.left = it.left - 1]]
                /\ UNCHANGED active
           ELSE /\ active' = DictDel(active, e.name)
                /\ Return(r, "broadcast", "", "RuntimeError")

\* for name, connection in self.active_connections.items()
BroadcastCall(r, text) ==
    /\ rpc[r] = "idle"
    /\ Delivered < MaxSends
    /\ BroadcastFrom(r, text, DictIter(active))
    /\ UNCHANGED <<ws, inbox, nextConn, regrest>>

\* await connection.send_text(message) is over; the loop goes on, or the
\* exception leaves broadcast
BroadcastSent(r) ==
    /\ rpc[r] = "b_sending"
    /\ \E o \in SendOutcomes(rloc[r].sock) :
          /\ inbox' = IF o = "sent"
                      THEN [inbox EXCEPT ![rloc[r].sock] =
                               Append(@, [text |-> rloc[r].text, seq |-> 0])]
                      ELSE inbox
          /\ IF o \in {"sent", "lost"}
             THEN BroadcastFrom(r, rloc[r].text,
                                [pos |-> rloc[r].pos, used |-> rloc[r].used,
                                 left |-> rloc[r].left])
             ELSE Return(r, "broadcast", "", o) /\ UNCHANGED active
    /\ UNCHANGED <<ws, nextConn, regrest>>

(* shutdown(module_name) *)
\* a comparison that lets every module through
AnyModule(module_name) == TRUE

\* if module_name == self.__module_name
OwnerMatch(module_name) == module_name = Owner

\* The loop of shutdown from next(iterator), over the dict d, to its next
\* await or its end: close(name) closes a CONNECTED websocket and awaits;
\* otherwise remove_connection(name) follows at once, and the dict having
\* changed size, the next(iterator) that follows raises
ShutdownFrom(r, module_name, d, it) ==
    LET nx == IterNext(d, it)
        e == d[nx.i] IN
    CASE nx.kind = "error" -> /\ Return(r, "shutdown", module_name, "RuntimeError")
                              /\ active' = d
                              /\ UNCHANGED ws
      [] nx.kind = "stop" -> /\ Return(r, "shutdown", module_name, "ok")
                             /\ active' = d
                             /\ UNCHANGED ws
      [] OTHER ->
           IF ws[e.sock].app = "CONNECTED"
           THEN /\ ws' = [ws EXCEPT ![e.sock].app = "DISCONNECTED"]
                /\ rpc' = [rpc EXCEPT ![r] = "sd_closing"]
                /\ rloc' = [rloc EXCEPT ![r] =
                              [NoLocals EXCEPT !.op = "shutdown",
                                  !.name = e.name, !.sock = e.sock,
                                  !.pos = nx.i, !.used = it.used,
                                  !.left = it.left - 1,
                                  !.module = module_name]]
                /\ active' = d
           ELSE /\ active' = DictDel(d, e.name)
                /\ Return(r, "shutdown", module_name, "RuntimeError")
                /\ UNCHANGED ws

\* shutdown called from module_name (given, or found on the stack): the
\* owner's call starts the loop over self.active_connections.keys(); any
\* other module's call is logged and refused
ShutdownCall(r, module_name) ==
    /\ rpc[r] = "idle"
    /\ IF OwnerMatch(module_name)
       THEN ShutdownFrom(r, module_name, active, DictIter(active))
       ELSE /\ Return(r, "shutdown", module_name, "refused")
            /\ UNCHANGED <<active, ws>>
    /\ UNCHANGED <<inbox, nextConn, regrest>>

\* await existing_websocket.close(...) returns; remove_connection(name);
\* the loop goes on
ShutdownClosed(r) ==
    /\ rpc[r] = "sd_closing"
    /\ ShutdownFrom(r, rloc[r].module, DictDel(active, rloc[r].name),
                    [pos |-> rloc[r].pos, used |-> rloc[r].used,
                     left |-> rloc[r].left])
    /\ UNCHANGED <<inbox, nextConn, regrest>>

RegStep(r) ==
    \/ ConnectClosePrev(r)
    \/ ConnectRegister(r)
    \/ \E name \in QueueNames, text \in Texts : SendCall(r, name, text)
    \/ SendDone(r)
    \/ \E text \in Texts : BroadcastCall(r, text)
    \/ BroadcastSent(r)
    \/ \E module_name \in Modules : ShutdownCall(r, module_name)
    \/ ShutdownClosed(r)

\* Calls of connect only, interleaved at their await points.
ConnStep(r) ==
    \/ \E name \in QueueNames : ConnectAccept(r, name)
    \/ ConnectClosePrev(r)
    \/ ConnectRegister(r)

(* ---- the running application: app.py lifespan, service.py callback ---- *)
\* The coroutine lifespan creates with asyncio.create_task(watch(...)).
WatchTask == 1

\* a text that is one more than the count
FormatNext(n) == ToString(n + 1)

\* "{0}".format(num_orders)
FormatCount(n) == ToString(n)

\* a supervisor that starts the loop again whenever the task is not running
StartWheneverIdle ==
    /\ tpc[WatchTask] = "idle"
    /\ cursor # None \/ \E c \in CursorIds : cur[c].state = "unused"
    /\ cursor' = CursorCall
    /\ cur' = IF cursor # None THEN cur
              ELSE [cur EXCEPT ![NewCursor] = [state |-> "open", buf |-> <<>>]]
    /\ watching' = TRUE
    /\ tpc' = [tpc EXCEPT ![WatchTask] = "next"]
    /\ tcs' = [tcs EXCEPT ![WatchTask] = CursorCall]
    /\ UNCHANGED <<tev, dbQueue, qrest>>

\* lifespan: QueueChangeStream(app.db), then the task that runs
\* QueueChangeStream.watch(on_change=send_new_order_message)
AppStart ==
    /\ ~watching
    /\ cursor = None
    /\ WatchCall(WatchTask)

\* A persisted enqueue or dequeue on vendor name's queue changes the number
\* of its pending orders from pending[name] to n; the orders field having
\* changed, every open cursor receives the updated document, of which the
\* callback reads the name and the number of orders (seq numbers the
\* updates in the order the store made them).
QueueUpdate(name, n) ==
    /\ reported < MaxEvents
    /\ n \in {pending[name] - 1, pending[name] + 1} \cap (0..MaxOrders)
    /\ \A c \in CursorIds : Len(cur[c].buf) < MaxBuf
    /\ pending' = [pending EXCEPT ![name] = n]
    /\ reported' = reported + 1
    /\ cur' = [c \in CursorIds |->
                 IF cur[c].state = "open"
                 THEN [cur[c] EXCEPT !.buf =
                          Append(@, [name |-> name, n |-> n, seq |-> reported + 1])]
                 ELSE cur[c]]
    /\ UNCHANGED <<dbQueue, dbOrder, nextId, pc, q, ord, fetched, enqLog, retLog, ovars,
                   watching, cursor, tpc, tcs, tev,
                   active, ws, inbox, nextConn, rpc, rloc, bsock>>

\* send_new_order_message up to its await: the name and the number of
\* orders are read, send_personal_message looks the websocket up and takes
\* its branch
BridgeLookup(t) ==
    /\ tpc[t] = "cb"
    /\ LET sock == DictGet(active, tev[t].name) IN
       CASE SendCase(sock) = "send" ->
              /\ tpc' = [tpc EXCEPT ![t] = "cb_sending"]
              /\ bsock' = [bsock EXCEPT ![t] = sock]
              /\ UNCHANGED <<active, tev>>
         [] SendCase(sock) = "evict" ->
              /\ active' = DictDel(active, tev[t].name)
              /\ tpc' = [tpc EXCEPT ![t] = "next"]
              /\ tev' = [tev EXCEPT ![t] = NoEvent]
              /\ UNCHANGED bsock
         [] OTHER ->
              /\ tpc' = [tpc EXCEPT ![t] = "next"]
              /\ tev' = [tev EXCEPT ![t] = NoEvent]
              /\ UNCHANGED <<active, bsock>>
    /\ UNCHANGED <<dbQueue, dbOrder, nextId, pc, q, ord, fetched, enqLog, retLog, ovars,
                   watching, cursor, cur, tcs,
                   ws, inbox, nextConn, rpc, rloc, pending, reported>>

\* await websocket.send_text is over: the text was delivered or lost and
\* the callback returns; or WebSocketDisconnect is caught and the name is
\* evicted; or another exception leaves the callback and watch()
BridgeSent(t) ==
    /\ tpc[t] = "cb_sending"
    /\ \E o \in SendOutcomes(bsock[t]) :
          /\ inbox' = IF o = "sent"
                      THEN [inbox EXCEPT ![bsock[t]] =
                               Append(@, [text |-> FormatCount(tev[t].n),
                                          seq |-> tev[t].seq])]
                      ELSE inbox
          /\ active' = IF o = "WebSocketDisconnect"
                       THEN DictDel(active, tev[t].name) ELSE active
          /\ tpc' = [tpc EXCEPT ![t] =
                        IF o = "ConnectionClosedError" THEN "idle" ELSE "next"]
          /\ tcs' = [tcs EXCEPT ![t] =
                        IF o = "ConnectionClosedError" THEN None ELSE @]
    /\ tev' = [tev EXCEPT ![t] = NoEvent]
    /\ bsock' = [bsock EXCEPT ![t] = None]
    /\ UNCHANGED <<dbQueue, dbOrder, nextId, pc, q, ord, fetched, enqLog, retLog, ovars,
                   watching, cursor, cur,
                   ws, nextConn, rpc, rloc, pending, reported>>

\* The steps of the watch task.
WatchTaskStep ==
    \/ WatchPull(WatchTask)
    \/ BridgeLookup(WatchTask)
    \/ BridgeSent(WatchTask)

\* The coroutine that runs lifespan.
LifespanTask == 2

\* lifespan up to yield, once per process
LifespanStart == cur[1].state = "unused" /\ AppStart

\* lifespan after yield, up to its first suspension: task.cancel() cancels
\* the await the watch task is suspended in (the next change, or the
\* callback's send_text), so that the task's next step raises
\* CancelledError; a task that is over is left alone; then
\* QueueChangeStream.close() up to its await
LifespanShutdown ==
    /\ tpc[LifespanTask] = "idle"
    /\ cursor # None
    /\ tpc[WatchTask] \in {"next", "cb_sending", "idle"}
    /\ watching' = FALSE
    /\ tpc' = [tpc EXCEPT ![WatchTask] = IF @ = "idle" THEN @ ELSE "cancelling",
                          ![LifespanTask] = "c_closing"]
    /\ tcs' = [tcs EXCEPT ![LifespanTask] = cursor]
    /\ UNCHANGED <<cursor, cur, tev, dbQueue, qrest>>

\* the watch task resumes with CancelledError, which leaves the callback
\* (it is no WebSocketDisconnect) and watch(): the statements after the
\* loop are not run, and the task is over
TaskCancelled(t) ==
    /\ tpc[t] = "cancelling"
    /\ tpc' = [tpc EXCEPT ![t] = "cancelled"]
    /\ tcs' = [tcs EXCEPT ![t] = None]
    /\ tev' = [tev EXCEPT ![t] = NoEvent]
    /\ bsock' = [bsock EXCEPT ![t] = None]
    /\ UNCHANGED <<dbQueue, dbOrder, nextId, pc, q, ord, fetched, enqLog, retLog, ovars,
                   watching, cursor, cur,
                   active, ws, inbox, nextConn, rpc, rloc, pending, reported>>

Init == InitQueue /\ InitFeed /\ InitReg /\ InitPlace

\* Requests interleave at their await points.
Next == \E p \in Procs : Step(p)

Spec == Init /\ [][Next]_vars

\* Requests run one at a time, each to completion.
NextSeq == \E p \in Procs : (\A r \in Procs \ {p} : pc[r] = "idle") /\ Step(p)

SpecSeq == Init /\ [][NextSeq]_vars

\* The steps of the request POST /order, with its validation.
PlaceStep(p) ==
    \/ \E req \in Requests : PlaceOrder(p, req)
    \/ PlaceFetchQueue(p)
    \/ PlaceSaveQueue(p)
    \/ PlaceSaveOrder(p)
    \/ PlaceSaveOrder2(p)
    \/ PlaceSaveQueue2(p)

\* Order placements, valid and not, one request at a time.
NextPlace ==
    \E p \in Procs : (\A r \in Procs \ {p} : pc[r] = "idle") /\ PlaceStep(p)

SpecPlace == Init /\ [][NextPlace]_vars

\* The change stream: updates of the queue document, and the coroutines
\* that call watch() and close().
NextFeed ==
    \/ \E d \in QueueDocs : StoreWrite(d)
    \/ \E t \in Tasks : TaskStep(t)

SpecFeed == Init /\ [][NextFeed]_vars

\* The registry: coroutines that call connect, send_personal_message,
\* broadcast and shutdown, clients that go away, and the handlers that
\* notice it.
NextReg ==
    \/ \E r \in RTasks, name \in QueueNames :
          nextConn <= NRegConns /\ ConnectAccept(r, name)
    \/ \E r \in RTasks : RegStep(r)
    \/ \E c \in ConnIds : PeerDisconnect(c)
    \/ \E c \in ConnIds : HandlerEvict(c)

SpecReg == Init /\ [][NextReg]_vars

\* Websockets that arrive and are connected, and nothing else.
NextConnect == \E r \in RTasks : ConnStep(r)

SpecConnect == Init /\ [][NextConnect]_vars

\* The application between startup and shutdown: the watch task, updates of
\* the vendors' queues, websockets that arrive, clients that go away.
NextApp ==
    \/ AppStart
    \/ \E name \in QueueNames, n \in 0..MaxOrders : QueueUpdate(name, n)
    \/ WatchTaskStep
    \/ \E r \in RTasks, name \in QueueNames :
          nextConn <= NRegConns /\ ConnectAccept(r, name)
    \/ \E r \in RTasks : ConnectClosePrev(r) \/ ConnectRegister(r)
    \/ \E c \in ConnIds : PeerDisconnect(c)
    \/ \E c \in ConnIds : HandlerEvict(c)

SpecApp == Init /\ [][NextApp]_vars

\* The event loop runs the watch task whenever it has a step to take.
SpecAppLive == SpecApp /\ WF_vars(WatchTaskStep)

\* The application from startup to the end of lifespan's
\* QueueChangeStream.close(): as NextApp, and the shutdown.
NextLife ==
    \/ LifespanStart
    \/ \E name \in QueueNames, n \in 0..MaxOrders : QueueUpdate(name, n)
    \/ WatchTaskStep
    \/ \E r \in RTasks, name \in QueueNames :
          nextConn <= NRegConns /\ ConnectAccept(r, name)
    \/ \E r \in RTasks : ConnectClosePrev(r) \/ ConnectRegister(r)
    \/ \E c \in ConnIds : PeerDisconnect(c)
    \/ \E c \in ConnIds : HandlerEvict(c)
    \/ LifespanShutdown
    \/ TaskCancelled(WatchTask)
    \/ CursorClosed(LifespanTask)
    \/ CloseReturn(LifespanTask)

SpecLife == Init /\ [][NextLife]_vars

(* ------------------------------- claims -------------------------------- *)
\* The orders dequeue handed out, in order (an Order by its id, a bare Link
\* by the id it refers to); empty returns are left out.
Abs(x) == IF x < 0 THEN 0 - x ELSE x
ReturnedOrders ==
    LET F[i \in 0..Len(retLog)] ==
            IF i = 0 THEN <<>>
            ELSE IF retLog[i] = None THEN F[i - 1]
            ELSE Append(F[i - 1], Abs(retLog[i]))
    IN F[Len(retLog)]

AllIdle == \A p \in Procs : pc[p] = "idle"

\* C1: with requests run one at a time on an initially empty queue, the
\* orders already returned by dequeue followed by the persisted pending
\* sequence are exactly the enqueued orders in call order: before any
\* dequeue the pending sequence equals the enqueue order, and the dequeues
\* return the orders in insertion order.
C1_Fifo ==
    /\ ReturnedOrders \o dbQueue.orders = enqLog
    /\ (retLog = <<>> => dbQueue.orders = enqLog)

\* C1 witness: two orders were enqueued and then both dequeued, in order.
C1_Witness ==
    /\ AllIdle
    /\ Len(enqLog) >= 2
    /\ retLog = enqLog
    /\ dbQueue.orders = <<>>

\* C2: a dequeue that finds the pending sequence non-empty removes exactly
\* the head, keeps the rest in order, stores the head in the current-order
\* slot, has set its persisted status to processing and returns it.
C2_DequeueNonEmpty ==
    [][\A p \in Procs :
          (pc[p] = "n_saveq" /\ pc'[p] = "idle" /\ dbQueue.orders # <<>>)
          => /\ dbQueue'.orders = Tail(dbQueue.orders)
             /\ dbQueue'.current_order = Head(dbQueue.orders)
             /\ dbOrder'[Head(dbQueue.orders)] = "processing"
             /\ retLog' = Append(retLog, Head(dbQueue.orders))]_vars

\* C2 witness: a dequeue on a queue of two has returned the head and left
\* the second order pending.
C2_Witness ==
    /\ AllIdle
    /\ enqLog = <<1, 2>>
    /\ retLog = <<1>>
    /\ dbQueue.orders = <<2>>
    /\ dbQueue.current_order = 1
    /\ dbOrder[1] = "processing"

\* C3: a dequeue that finds the pending sequence empty returns empty,
\* leaves the pending sequence empty and persists an empty current-order
\* slot, whatever the slot held.
C3_DequeueEmpty ==
    [][\A p \in Procs :
          (pc[p] = "n_saveq" /\ pc'[p] = "idle" /\ dbQueue.orders = <<>>)
          => /\ dbQueue'.orders = <<>>
             /\ dbQueue'.current_order = None
             /\ retLog' = Append(retLog, None)]_vars

\* C3 witness: the slot held an order (the one the previous dequeue
\* returned) and the next dequeue, on the empty queue, emptied it.
C3_Witness ==
    /\ AllIdle
    /\ Len(retLog) >= 2
    /\ retLog[Len(retLog) - 1] # None
    /\ retLog[Len(retLog)] = None
    /\ dbQueue.current_order = None
    /\ dbQueue.orders = <<>>

\* C4: every order whose enqueue completed is in the persisted pending
\* sequence, in the current-order slot, or was returned by a dequeue.
C4_NoLostEnqueue ==
    \A i \in 1..Len(enqLog) :
        \/ enqLog[i] \in Range(dbQueue.orders)
        \/ enqLog[i] = dbQueue.current_order
        \/ enqLog[i] \in Range(ReturnedOrders)

\* C5: no order is returned by dequeue more than once.
C5_NoDoubleDequeue ==
    \A i, j \in 1..Len(retLog) :
        (i # j /\ retLog[i] > 0) => retLog[i] # retLog[j]

\* C6: in the persisted queue no order is at once in the pending sequence
\* and in the current-order slot.
C6_PendingSlotDisjoint ==
    dbQueue.current_order # None
        => dbQueue.current_order \notin Range(dbQueue.orders)

\* C6 witness: the slot holds one order while another is pending.
C6_Witness ==
    /\ dbQueue.current_order # None
    /\ dbQueue.orders # <<>>

\* The status changes of the order state machine, and the creation.
ForwardSteps ==
    { <<"waiting", "processing">>, <<"processing", "completed">>,
      <<"waiting", "canceled">>, <<Absent, "waiting">> }

\* C7: every change of an order's persisted status is waiting to
\* processing, processing to completed or waiting to canceled (after the
\* order was created as waiting).
C7_StatusForwardOnly ==
    [][\A o \in OrderIds :
          dbOrder'[o] # dbOrder[o] => <<dbOrder[o], dbOrder'[o]>> \in ForwardSteps]_vars

\* C8: if the current-order slot is non-empty, the order it refers to has
\* status processing.
C8_SlotIsProcessing ==
    dbQueue.current_order # None => dbOrder[dbQueue.current_order] = "processing"

\* The step appends a change event to cursor c.
Emitted(c) == Len(cur'[c].buf) > Len(cur[c].buf)

\* C9: while a change stream cursor is open, a step emits a change event
\* to it if and only if the step is an update of the queue document that
\* modifies the orders field; the event carries the updated document.  An
\* update that changes only the name or only the current-order slot emits
\* nothing, so no callback is invoked for it.
C9_EventIffOrdersUpdated ==
    [][\A c \in CursorIds :
          cur[c].state = "open"
          => /\ Emitted(c) <=> dbQueue'.orders # dbQueue.orders
             /\ Emitted(c) =>
                  cur'[c].buf = Append(cur[c].buf,
                                       [name |-> dbQueue'.name,
                                        n |-> Len(dbQueue'.orders)])]_vars

\* C9 witness: a cursor received the event of an update that added an
\* order while the queue was named "V", stayed open while the queue was
\* renamed and its slot changed, and received no event for those.
C9_Witness ==
    \E c \in CursorIds :
        /\ cur[c].state = "open"
        /\ cur[c].buf = <<[name |-> "V", n |-> 1]>>
        /\ dbQueue.name = "W"
        /\ dbQueue.current_order # None
        /\ \E t \in Tasks : tpc[t] = "next" /\ tcs[t] = c

\* C10: at most one invocation of the change stream callback is in flight.
C10_OneCallbackInFlight ==
    Cardinality({t \in Tasks : tpc[t] = "cb"}) <= 1

\* No call on the registry is in progress.
AllCallsReturned == \A r \in RTasks : rpc[r] = "idle"

\* C14: once every connect call has returned, a websocket that was accepted
\* under a name and has not been closed is the one the registry maps that
\* name to: no open connection is left outside the registry.
C14_OnlyRegisteredStaysOpen ==
    AllCallsReturned =>
        \A c \in ConnIds :
            ws[c].app = "CONNECTED" => DictGet(active, ws[c].name) = c


\* Caller r enters send_personal_message in this step.
SendStarts(r) ==
    /\ rpc[r] = "idle"
    /\ rloc'[r].op = "send"
    /\ <<rpc'[r], rloc'[r]>> # <<rpc[r], rloc[r]>>

\* Caller r leaves the await of send_text in this step.
SendEnds(r) == rpc[r] = "s_sending" /\ rpc'[r] = "idle"

\* The registry's entries other than name's are the same after the step.
OthersKept(name) ==
    \A n \in QueueNames \ {name} : DictGet(active', n) = DictGet(active, n)

\* What send_personal_message does in each of its three cases; failures
\* are the outcomes a send to a connected entry whose client is gone may
\* have besides returning.
SendContract(failures) ==
    \A r \in RTasks :
        /\ SendStarts(r) =>
             LET name == rloc'[r].name
                 sock == DictGet(active, name) IN
             /\ inbox' = inbox
             /\ ws' = ws
             /\ sock = None =>
                  /\ active' = active
                  /\ rpc'[r] = "idle" /\ rloc'[r].res = "ok"
             /\ (sock # None /\ ws[sock].app = "DISCONNECTED") =>
                  /\ DictGet(active', name) = None
                  /\ OthersKept(name)
                  /\ rpc'[r] = "idle" /\ rloc'[r].res = "ok"
             /\ (sock # None /\ ws[sock].app = "CONNECTED") =>
                  /\ active' = active
                  /\ rpc'[r] = "s_sending" /\ rloc'[r].sock = sock
        /\ SendEnds(r) =>
             LET sock == rloc[r].sock IN
             /\ active' = active
             /\ ws' = ws
             /\ IF ws[sock].peer
                THEN /\ inbox' = [inbox EXCEPT ![sock] =
                                     Append(@, [text |-> rloc[r].text, seq |-> 0])]
                     /\ rloc'[r].res = "ok"
                ELSE /\ inbox' = inbox
                     /\ rloc'[r].res \in {"ok"} \cup failures

\* C15 as stated: send_personal_message never raises to its caller, and
\* changes the registry in one case only: name registered and connected,
\* the text is delivered; registered but disconnected, the entry is evicted
\* and nothing is sent; not registered, nothing is sent and the map is
\* unchanged.
C15_SendNeverRaises == [][SendContract({})]_vars

\* C15 amended: as stated, except that when name is registered and
\* connected but the client is gone, the failure of send_text
\* (WebSocketDisconnect or ConnectionClosedError) is raised to the caller,
\* with the registry unchanged.
C15_SendRaisesOnlyTransportFailure ==
    [][SendContract({"WebSocketDisconnect", "ConnectionClosedError"})]_vars

\* C15 witness: a send to a registered, connected websocket whose client was
\* gone raised, and the registry still holds the entry.
C15_Witness ==
    \E r \in RTasks :
        /\ rpc[r] = "idle"
        /\ rloc[r].op = "send"
        /\ rloc[r].res = "WebSocketDisconnect"
        /\ DictGet(active, rloc[r].name) # None
        /\ ~ws[DictGet(active, rloc[r].name)].peer


\* Caller r's shutdown call, made as module_name's owner, ends in this step.
ShutdownEnds(r) ==
    /\ rloc'[r].op = "shutdown"
    /\ rpc'[r] = "idle"
    /\ rloc'[r].res # "refused"
    /\ <<rpc'[r], rloc'[r]>> # <<rpc[r], rloc[r]>>

\* C16: a shutdown call made by the owner returns without error, and when
\* it returns the registry is empty and every connection it held is closed.
C16_OwnerShutdownClosesAll ==
    [][\A r \in RTasks :
          ShutdownEnds(r) =>
              /\ rloc'[r].res = "ok"
              /\ DictSize(active') = 0
              /\ \A i \in 1..Len(active) :
                    active[i] # Tomb => ws'[active[i].sock].app = "DISCONNECTED"]_vars


\* Caller r makes a shutdown call from a module that did not create the
\* registry, in this step.
ForeignShutdown(r) ==
    /\ rpc[r] = "idle"
    /\ rloc'[r].op = "shutdown"
    /\ <<rpc'[r], rloc'[r]>> # <<rpc[r], rloc[r]>>
    /\ (IF rpc'[r] = "idle" THEN rloc'[r].name ELSE rloc'[r].module) # Owner

\* C17: a shutdown call made from a module other than the one that created
\* the registry is refused: it returns at once, closes no websocket and
\* leaves the connection map as it was.
C17_ForeignShutdownRefused ==
    [][\A r \in RTasks :
          ForeignShutdown(r) =>
              /\ rpc'[r] = "idle"
              /\ rloc'[r].res = "refused"
              /\ active' = active
              /\ ws' = ws]_vars

\* C17 witness: a shutdown call from another module was refused while two
\* connected websockets were registered, and both still are.
C17_Witness ==
    \E r \in RTasks :
        /\ rloc[r].op = "shutdown"
        /\ rloc[r].res = "refused"
        /\ rloc[r].name # Owner
        /\ DictSize(active) = 2
        /\ \A i \in 1..Len(active) :
              active[i] # Tomb => ws[active[i].sock].app = "CONNECTED"


\* Caller r's broadcast call ends in this step.
BroadcastEnds(r) ==
    /\ rloc'[r].op = "broadcast"
    /\ rpc'[r] = "idle"
    /\ <<rpc'[r], rloc'[r]>> # <<rpc[r], rloc[r]>>

\* C18: a broadcast call completes without error, whatever mix of connected
\* and disconnected entries it sweeps: it ends by raising only when a send
\* to a connected entry failed.
C18_BroadcastCompletes ==
    [][\A r \in RTasks :
          BroadcastEnds(r) =>
              rloc'[r].res \in {"ok", "WebSocketDisconnect", "ConnectionClosedError"}]_vars


\* C11: the messages a websocket's client received are in the order in
\* which the store made the queue updates they report: a count pushed to a
\* vendor is never older than one already delivered (counts in between may
\* be missing).
C11_DeliveredInStoreOrder ==
    \A c \in ConnIds :
        \A i, j \in 1..Len(inbox[c]) :
            i < j => inbox[c][i].seq < inbox[c][j].seq

\* C11 witness: one client received "1" and then "2" for the store's first
\* and second update, and another client received a message for the third
\* update only.
C11_Witness ==
    \E c, d \in ConnIds :
        /\ Len(inbox[c]) >= 2
        /\ inbox[c][1] = [text |-> "1", seq |-> 1]
        /\ inbox[c][2] = [text |-> "2", seq |-> 2]
        /\ Len(inbox[d]) = 1
        /\ inbox[d][1].seq = 3

\* The callback of task t begins in this step, for an event whose name is
\* registered with a connected websocket.
BridgeBeginsConnected(t) ==
    /\ tpc[t] = "cb"
    /\ tpc'[t] # "cb"
    /\ SendCase(DictGet(active, tev[t].name)) = "send"

Healthy(c) ==
    /\ DictGet(active, ws[c].name) = c
    /\ ws[c].app = "CONNECTED"
    /\ ws[c].peer

\* Websocket c has been healthy since it received its last message, and
\* that message is not the number of orders now pending for its vendor.
Stale(c) ==
    /\ Healthy(c)
    /\ inbox[c] # <<>>
    /\ inbox[c][Len(inbox[c])].text # ToString(pending[ws[c].name])

\* C13: while the application runs, a vendor whose websocket stays
\* registered and connected is not left with an old count: after a
\* persisted change of its pending orders a message follows, and once the
\* changes stop the last message delivered is the final number of pending
\* orders, whatever happens to sends on other vendors' websockets.
C13_CountEventuallyCurrent ==
    \A c \in ConnIds : Stale(c) ~> ~Stale(c)


\* C19: at most one change stream cursor is open at any time: cursor() and
\* watch() open a cursor only when the change stream holds none, and reuse
\* the one it holds.
C19_OneOpenCursor ==
    Cardinality({c \in CursorIds : cur[c].state = "open"}) <= 1

\* Caller t's close() call returns in this step.
CloseReturns(t) == tpc[t] = "c_resume" /\ tpc'[t] = "idle"

\* C20: when close() returns, the underlying cursor is released and
\* consumption has stopped: the change stream holds no cursor and no cursor
\* is open, so that no callback begins for a change made after the close.
C20_NoOpenCursorAfterClose ==
    [][\A t \in Tasks :
          CloseReturns(t) =>
              /\ cursor' = None
              /\ \A c \in CursorIds : cur'[c].state # "open"]_vars


\* No call of watch() or close() is in progress.
FeedQuiet == \A t \in Tasks : tpc[t] = "idle"

\* C21: after close() has returned and the watch() it stopped has returned,
\* a call of watch() on the same change stream object opens no cursor and
\* starts no loop, so no callback is invoked: the singleton does not come
\* back to life.
C21_NoWatchAfterClose ==
    [][(/\ FeedQuiet
        /\ cursor = None
        /\ \E c \in CursorIds : cur[c].state = "closed")
          => /\ \A c \in CursorIds : cur'[c].state = "open" => cur[c].state = "open"
             /\ \A t \in Tasks : tpc'[t] \notin {"next", "cb"}]_vars


\* The exception of task t's callback leaves watch() in this step.
CallbackRaises(t) == tpc[t] = "cb" /\ tpc'[t] = "idle"

\* C30: when an exception raised by the callback has ended a watch()
\* session, the change stream is not marked as watching and holds no open
\* cursor, so that a later watch() call starts a new session.
C30_RaiseLeavesFeedStopped ==
    [][\A t \in Tasks :
          CallbackRaises(t) =>
              /\ ~watching'
              /\ cursor' = None
              /\ \A c \in CursorIds : cur'[c].state # "open"]_vars


\* Request p takes a step of Queue.done.
DoneStep(p) ==
    \/ pc[p] = "idle" /\ pc'[p] = "d_fetchord"
    \/ pc[p] \in {"d_fetchord", "d_saveord", "d_saveq"} /\ pc'[p] # pc[p]

\* C25: Queue.done changes nothing but the status of the order it found in
\* the current-order slot, which becomes completed: no step of it changes the
\* persisted pending sequence or the persisted slot, also when an enqueue
\* or a dequeue on the same queue runs in between its steps.
C25_DoneKeepsQueue ==
    [][\A p \in Procs :
          DoneStep(p) =>
              /\ dbQueue' = dbQueue
              /\ \A o \in OrderIds :
                    dbOrder'[o] # dbOrder[o] =>
                        /\ o = q[p].current_order
                        /\ dbOrder'[o] = "completed"]_vars


\* A dequeue's save of the queue document is this step.
DequeueSaves == \E p \in Procs : pc[p] = "n_saveq" /\ pc'[p] = "idle"

\* C26: the persisted current-order slot changes only in a dequeue's save:
\* no save of an enqueue, of an order placement or of Queue.done changes
\* which order the slot holds, also when a dequeue runs in between.
C26_OnlyDequeueChangesSlot ==
    [][dbQueue'.current_order # dbQueue.current_order => DequeueSaves]_vars


\* The orders the persisted queue refers to.
QueueRefs ==
    Range(dbQueue.orders) \cup ({dbQueue.current_order} \ {None})

\* C27: every order the persisted queue refers to, in its pending sequence
\* or its current-order slot, exists in the order collection, at every
\* point of an order placement (the order is persisted before the queue
\* refers to it).
C27_NoDanglingReference ==
    \A o \in QueueRefs : dbOrder[o] # Absent


\* C29: between requests, an order whose status is processing is the order
\* in the current-order slot: no dequeue, on an empty or a non-empty
\* pending sequence, takes a processing order out of the slot.
C29_ProcessingIsInSlot ==
    AllIdle =>
        \A o \in OrderIds :
            dbOrder[o] = "processing" => dbQueue.current_order = o


\* The handler of websocket c ends in this step.
HandlerEnds(c) == ws[c].handler /\ ~ws'[c].handler

\* C28: when the handler of a websocket ends, the only registry entry it
\* may remove is its own: a websocket registered later under the same name
\* stays registered, also when the earlier websocket's client went away
\* while the later one was being connected.
C28_HandlerEvictsOnlyItself ==
    [][\A c \in ConnIds :
          HandlerEnds(c) =>
              \A n \in QueueNames :
                  DictGet(active', n) # DictGet(active, n) => DictGet(active, n) = c]_vars


\* The watch task's session was ended by an exception of the callback: the
\* task is over and the change stream is still marked as watching.
SessionEndedByRaise == watching /\ tpc[WatchTask] = "idle"

\* C23: an exception the callback raises leaves watch() and ends the task
\* that ran it; from then on no event is taken from the cursor, no message
\* is delivered, and nothing starts the loop again.
C23_RaiseEndsSession ==
    [][/\ \A t \in Tasks :
             (tpc[t] = "cb_sending" /\ tpc'[t] \notin {"cb_sending", "next"})
                 => tpc'[t] = "idle" /\ tcs'[t] = None
       /\ SessionEndedByRaise =>
             /\ tpc'[WatchTask] = "idle"
             /\ watching'
             /\ inbox' = inbox
             /\ \A c \in CursorIds : Len(cur'[c].buf) >= Len(cur[c].buf)]_vars

\* C23 witness: the session was ended by an exception, and a change made
\* since waits in the cursor for a vendor whose websocket is registered,
\* connected and has its client.
C23_Witness ==
    /\ SessionEndedByRaise
    /\ cursor # None
    /\ cur[cursor].buf # <<>>
    /\ \E c \in ConnIds : Healthy(c) /\ ws[c].name = Head(cur[cursor].buf).name


\* No cursor is open, the change stream holds none and is not marked as
\* watching.
FeedReleased ==
    /\ cursor = None
    /\ ~watching
    /\ \A c \in CursorIds : cur[c].state # "open"

\* C22 as stated: the cancelled watch loop runs the close() cleanup itself:
\* when the cancelled task is over, the cursor is closed and released and
\* the change stream is not marked as watching.
C22_CancelledLoopRunsClose ==
    [][\A t \in Tasks :
          (tpc[t] = "cancelling" /\ tpc'[t] = "cancelled") => FeedReleased']_vars

\* C22 amended: the cancelled watch loop runs no cleanup; the close() call
\* lifespan makes right after task.cancel() does: when that call returns,
\* the cursor is closed and released, the change stream is not marked as
\* watching and the watch task consumes nothing any more.
C22_ShutdownReleasesCursor ==
    [][(tpc[LifespanTask] = "c_resume" /\ tpc'[LifespanTask] = "idle")
          => /\ FeedReleased'
             /\ tpc'[WatchTask] \in {"cancelling", "cancelled", "idle"}]_vars

\* C22 witness: the watch task was cancelled while it awaited the next
\* change, lifespan's close() has returned, and the cursor the task
\* consumed is closed and released.
C22_Witness ==
    /\ tpc[WatchTask] = "cancelled"
    /\ tpc[LifespanTask] = "idle"
    /\ cur[1].state = "closed"
    /\ FeedReleased


\* The quantity of food f a request orders, over all its items.
OrderedQuantity(req, f) ==
    LET S[i \in 0..Len(req.foods)] ==
            IF i = 0 THEN 0
            ELSE S[i - 1] + (IF req.foods[i].food_id = f
                             THEN req.foods[i].quantity ELSE 0)
    IN S[Len(req.foods)]

\* The sum of unit price times quantity over the foods a request orders.
ExpectedTotal(req) ==
    LET S[f \in 0..NFoods] ==
            IF f = 0 THEN 0 ELSE S[f - 1] + Price(f) * OrderedQuantity(req, f)
    IN S[NFoods]

\* The requests validation has to reject.
MustReject(req) ==
    \/ ~req.vendor
    \/ ~req.consumer
    \/ \E i \in 1..Len(req.foods) : req.foods[i].food_id \notin Menu
    \/ req.total_price # ExpectedTotal(req)

\* C24: an order placement with an unknown vendor, an unknown consumer, an
\* item that is not on the vendor's menu, or a total that differs from the
\* sum of unit price times quantity over its items (duplicates added up) is
\* rejected and persists nothing: no order is created, the queue, the
\* orders and the consumer are unchanged, the request is over, and no
\* change event or message arises.
C24_RejectedPersistsNothing ==
    [][(resp' # resp /\ MustReject(resp'.req))
          => /\ resp'.outcome \notin {"ok", "none"}
             /\ UNCHANGED <<dbQueue, dbOrder, dbConsumer, nextId, pc, ord, q>>
             /\ UNCHANGED <<cur, inbox>>]_vars

\* C24 witness: the order of two of food 1 with total 100 was placed and
\* is pending; the same order with total 90 was then rejected for its
\* price, and the queue still holds the first order only.
C24_Witness ==
    /\ resp.outcome = "Food prices don't match"
    /\ resp.req = [consumer |-> TRUE, vendor |-> TRUE,
                   foods |-> <<[food_id |-> 1, quantity |-> 2]>>,
                   total_price |-> 90]
    /\ AllIdle
    /\ dbQueue.orders = <<1>>
    /\ dbConsumer = <<1>>
    /\ dbOrder[1] = "waiting"
    /\ nextId = 2

====
